---- MODULE Spec2Model ----
(***************************************************************************)
(* Model of bleeding-risk-predictor.py, a Streamlit script.                *)
(*                                                                         *)
(* Streamlit executes the whole script from top to bottom once for every   *)
(* interaction of the operator with the page: opening the page, editing a  *)
(* widget, pressing the button.  One action of this model is one such      *)
(* script run, from line 9 to line 198.  What survives between runs is the *)
(* widget state of the session (the values held by the input controls) and *)
(* the st.cache_resource cache of load_model; module-level names (model,   *)
(* feature_names, explainer) are rebuilt by every run.                     *)
(*                                                                         *)
(* Numbers: albumin_max is a float widget with step 0.1, modelled in       *)
(* tenths; probabilities are modelled in thousandths (permille), so that   *)
(* the cutoffs 0.3, 0.5, 0.7 are 300, 500, 700.                            *)
(***************************************************************************)
EXTENDS Integers, Sequences, FiniteSets, TLC

VARIABLES
    file,             \* xgboost_bleed_model.joblib on disk
    cache,            \* st.cache_resource entry of load_model
    controls,         \* widget state of the session: widget name -> value
    input_df,         \* the DataFrame returned by user_input_features in the last run
    proba,            \* main's local proba in the last run (NoProba: never assigned)
    rendered,         \* elements the last run put on the page, in order
    run_status,       \* how the last script run ended
    raised,           \* the call that raised in the last run ("none": no call)
    model_loads,      \* number of times joblib.load built a bundle
    explainer_builds, \* number of times shap.TreeExplainer(model) was constructed
    failed_requests   \* consecutive prediction requests that ended in st.error

vars == <<file, cache, controls, input_df, proba, rendered, run_status, raised,
          model_loads, explainer_builds, failed_requests>>

----------------------------------------------------------------------------
(* Bounds of the model *)

\* script runs that get past load_model (each constructs an explainer)
MaxRuns == 3

----------------------------------------------------------------------------
(* Helpers *)

Range(s) == {s[i] : i \in 1..Len(s)}

Reverse(s) == [i \in 1..Len(s) |-> s[Len(s) + 1 - i]]

Rotate(s) == [i \in 1..Len(s) |-> s[(i % Len(s)) + 1]]

Without(s, n) == SelectSeq(s, LAMBDA x : x # n)

----------------------------------------------------------------------------
(* The input controls, lines 33-69 *)

NumberInputs == {"apache_iv_score", "gcs", "albumin_max", "hematocrit_min",
                 "platelet_min", "ptt_max", "pt_max", "bun_max",
                 "respiratoryrate", "nibp_systolic", "nibp_diastolic"}

YesNoInputs == {"anemia", "caucasian", "medsurg_icu", "cardiac_icu", "neuro_icu",
                "gastrointestinal_condition", "trauma", "history_of_bleed",
                "history_of_vte", "sepsis", "vascular_disorders",
                "stress_ulcer_drug"}

SelectBoxes == YesNoInputs \cup {"gender"}

Widgets == NumberInputs \cup SelectBoxes

\* min_value of each st.number_input
min_value ==
    [apache_iv_score |-> 0, gcs |-> 3, albumin_max |-> 10, hematocrit_min |-> 10,
     platelet_min |-> 10, ptt_max |-> 20, pt_max |-> 10, bun_max |-> 5,
     respiratoryrate |-> 5, nibp_systolic |-> 50, nibp_diastolic |-> 30]

\* max_value of each st.number_input
max_value ==
    [apache_iv_score |-> 200, gcs |-> 15, albumin_max |-> 60, hematocrit_min |-> 60,
     platelet_min |-> 500, ptt_max |-> 200, pt_max |-> 50, bun_max |-> 100,
     respiratoryrate |-> 50, nibp_systolic |-> 250, nibp_diastolic |-> 150]

\* options of each st.selectbox
options(w) == IF w = "gender" THEN {"Male", "Female"} ELSE {"No", "Yes"}

\* value= of each number_input, options[index] of each selectbox
Defaults ==
    [apache_iv_score |-> 50, gcs |-> 12, albumin_max |-> 35, hematocrit_min |-> 30,
     anemia |-> "No",
     platelet_min |-> 150, ptt_max |-> 35, pt_max |-> 13, bun_max |-> 20,
     respiratoryrate |-> 18,
     nibp_systolic |-> 120, nibp_diastolic |-> 80, gender |-> "Male",
     caucasian |-> "Yes", medsurg_icu |-> "No",
     cardiac_icu |-> "No", neuro_icu |-> "No", gastrointestinal_condition |-> "No",
     trauma |-> "No", history_of_bleed |-> "No", history_of_vte |-> "No",
     sepsis |-> "No", vascular_disorders |-> "No", stress_ulcer_drug |-> "No"]

\* The values the operator types into a number_input in this model: the
\* limits of the widget, and for the four inputs of the derived features
\* the values around the cutoffs of lines 72-73.
Typed(w) ==
    CASE w = "ptt_max"         -> {20, 35, 40, 41, 45, 200}
      [] w = "pt_max"          -> {10, 13, 14, 15, 50}
      [] w = "respiratoryrate" -> {5, 18, 24, 25, 30, 50}
      [] w = "nibp_systolic"   -> {50, 85, 89, 90, 120, 250}
      [] OTHER                 -> {min_value[w], Defaults[w], max_value[w]}

----------------------------------------------------------------------------
(* user_input_features, lines 27-107 *)

\* line 72 with >= for the first comparison
coagulation_dysfunction_ge(ptt_max, pt_max) ==
    IF ptt_max >= 40 \/ pt_max > 14 THEN 1 ELSE 0

\* line 72 with "and" for "or"
coagulation_dysfunction_and(ptt_max, pt_max) ==
    IF ptt_max > 40 /\ pt_max > 14 THEN 1 ELSE 0

\* line 72
coagulation_dysfunction(ptt_max, pt_max) ==
    IF ptt_max > 40 \/ pt_max > 14 THEN 1 ELSE 0

\* line 73
respiratory_failure(respiratoryrate, nibp_systolic) ==
    IF respiratoryrate > 24 \/ nibp_systolic < 90 THEN 1 ELSE 0

\* the encoding of a Yes/No selectbox with the two branches exchanged
YesNo_inverted(selection) == IF selection = "Yes" THEN 0 ELSE 1

\* 1 if <selection> == "Yes" else 0, lines 81, 91-100, 104
YesNo(selection) == IF selection = "Yes" THEN 1 ELSE 0

\* 1 if gender == "Female" else 0, line 90
Gender(selection) == IF selection = "Female" THEN 1 ELSE 0

\* the keys of the dict of lines 76-105, in the order they are written
DataKeys ==
    <<"apache_iv_score", "gcs", "albumin_max", "hematocrit_min", "anemia",
      "platelet_min", "ptt_max", "coagulation_dysfunction", "pt_max", "bun_max",
      "respiratoryrate", "nibp_systolic", "nibp_diastolic", "gender", "caucasian",
      "medsurg_icu", "cardiac_icu", "neuro_icu", "gastrointestinal_condition",
      "trauma", "history_of_bleed", "history_of_vte", "sepsis",
      "vascular_disorders", "acute_coronary_syndrome", "respiratory_failure",
      "vasopressors_inotropic_agents", "stress_ulcer_drug">>

\* the dict of lines 76-105 for the widget values c
Data(c) ==
    [k \in Range(DataKeys) |->
        CASE k \in NumberInputs -> c[k]
          [] k \in YesNoInputs  -> YesNo(c[k])
          [] k = "gender"       -> Gender(c[k])
          [] k = "coagulation_dysfunction" ->
                coagulation_dysfunction(c["ptt_max"], c["pt_max"])
          [] k = "respiratory_failure" ->
                respiratory_failure(c["respiratoryrate"], c["nibp_systolic"])
          [] k = "acute_coronary_syndrome"       -> 0
          [] k = "vasopressors_inotropic_agents" -> 0]

\* The missing value pandas puts in a column no key of the dict fills; no
\* widget and no encoding produces a negative number.
NaN == -1

\* a frame filled by position: column i takes the value of the i-th key of
\* the dict, whatever the column is called
DataFrame_positional(data, feature_names) ==
    [columns |-> feature_names,
     row     |-> [n \in Range(feature_names) |->
                    LET i == CHOOSE j \in 1..Len(feature_names) : feature_names[j] = n
                    IN  IF i <= Len(DataKeys) THEN data[DataKeys[i]] ELSE NaN]]

\* pd.DataFrame([data], columns=feature_names), line 107: one row, the
\* columns are feature_names in that order, each filled from the dict key of
\* the same name; a key that is no column is left out, a column that is no
\* key holds NaN.  No exception is raised in either case.
DataFrame(data, feature_names) ==
    [columns |-> feature_names,
     row     |-> [n \in Range(feature_names) |->
                    IF n \in DOMAIN data THEN data[n] ELSE NaN]]

user_input_features(c, feature_names) == DataFrame(Data(c), feature_names)

\* input_df of a run that never reached line 117
NoFrame == [columns |-> <<>>, row |-> <<>>]

----------------------------------------------------------------------------
(* load_model and the module level, lines 9-24 *)

\* a bundle file joblib.load can read, with the feature_names it holds
BundleFile(feature_names) == [status |-> "ok", feature_names |-> feature_names]

MissingFile == [status |-> "missing", feature_names |-> <<>>]

CorruptFile == [status |-> "corrupt", feature_names |-> <<>>]

\* feature_names of bundles whose names are the 28 keys of the dict
PermutedSchemas == {DataKeys, Reverse(DataKeys), Rotate(DataKeys)}

\* feature_names of bundles trained on another set of names: a name of the
\* dict is gone, a name the dict never fills was added, or both
DriftedSchemas ==
    {Without(DataKeys, "acute_coronary_syndrome"),
     Append(DataKeys, "lactate_max"),
     Append(Without(DataKeys, "stress_ulcer_drug"), "lactate_max")}

Files == {MissingFile, CorruptFile}
            \cup {BundleFile(s) : s \in PermutedSchemas \cup DriftedSchemas}

\* the st.cache_resource entry before load_model ever returned
EmptyCache == [loaded |-> FALSE, feature_names |-> <<>>]

\* joblib.load and the two subscripts of lines 14-15 raise on f
LoadRaises(f) == f.status # "ok"

\* load_model with the failure of joblib.load swallowed: it returns an
\* empty bundle
load_model_swallow(entry, f) ==
    IF entry.loaded
    THEN [raised |-> FALSE, cache |-> entry, built |-> 0]
    ELSE [raised |-> FALSE,
          cache |-> [loaded |-> TRUE, feature_names |-> f.feature_names],
          built |-> 1]

\* @st.cache_resource, lines 12-15: the body runs only when the cache holds
\* no entry; an entry is stored only when the body returned.
\* The result: whether line 18 raised, the cache afterwards and whether the
\* body built a new bundle.
load_model(entry, f) ==
    IF entry.loaded
    THEN [raised |-> FALSE, cache |-> entry, built |-> 0]
    ELSE IF LoadRaises(f)
         THEN [raised |-> TRUE, cache |-> entry, built |-> 0]
         ELSE [raised |-> FALSE,
               cache |-> [loaded |-> TRUE, feature_names |-> f.feature_names],
               built |-> 1]

\* explainer = shap.TreeExplainer(model), line 21: a plain module-level
\* statement, executed by every script run that reaches it.
\* The number of explainers constructed after one more run, given n so far.
TreeExplainer(n) == n + 1

\* line 24, in permille
THRESHOLD == 500

----------------------------------------------------------------------------
(* main, lines 110-194 *)

\* an element on the page
El(kind, text) == [el |-> kind, text |-> text]

\* proba before line 122 assigned it
NoProba == -1

\* the probabilities the scorer returns in this model: the cutoffs, their
\* neighbours and the ends of [0, 1]
Probas == {0, 300, 301, 499, 500, 700, 701, 1000}

\* line 123
Prediction(p) == IF p >= THRESHOLD THEN "High Risk" ELSE "Low Risk"

\* f"{proba * 100:.1f}%", line 131, of p permille
Percent(p) == ToString(p \div 10) \o "." \o ToString(p % 10) \o "%"

\* lines 148-168 with >= for the first comparison
RiskInterpretation_ge(p) ==
    IF p >= 700 THEN El("warning", "High Risk Warning")
    ELSE IF p > 300 THEN El("info", "Moderate Risk")
    ELSE El("success", "Low Risk")

\* lines 148-168
RiskInterpretation(p) ==
    IF p > 700 THEN El("warning", "High Risk Warning")
    ELSE IF p > 300 THEN El("info", "Moderate Risk")
    ELSE El("success", "Low Risk")

\* What the external calls of one prediction request do: whether
\* model.predict_proba raises and the probability it returns otherwise,
\* whether explainer(input_df) raises, whether shap.force_plot or the html
\* component raises.
Responses ==
    [score_raises : BOOLEAN, p : Probas, explainer_raises : BOOLEAN,
     plot_raises : BOOLEAN]

\* an except clause that passes
Except_pass == <<>>

\* except Exception as e: st.error(...), lines 170-171
Except == <<El("error", "Error during prediction")>>

\* lines 146-168
RiskSection(p) == <<El("subheader", "Risk Interpretation"), RiskInterpretation(p)>>

\* lines 133-168 with the risk interpretation moved in front of the
\* explanation
ExplainSection_band_first(r) ==
    RiskSection(r.p) \o
    (IF r.explainer_raises THEN Except
     ELSE <<El("subheader", "Individual Prediction Explanation")>> \o
          (IF r.plot_raises THEN Except ELSE <<El("html", "force_plot")>>))

\* lines 133-168, entered after the metrics are on the page
ExplainSection(r) ==
    IF r.explainer_raises THEN Except
    ELSE <<El("subheader", "Individual Prediction Explanation")>> \o
         (IF r.plot_raises THEN Except
          ELSE <<El("html", "force_plot")>> \o RiskSection(r.p))

\* the try statement of lines 120-171
TryBlock(r) ==
    IF r.score_raises THEN Except
    ELSE <<El("success", "Prediction complete!"),
           El("metric", "Prediction Result: " \o Prediction(r.p)),
           El("metric", "Risk Probability: " \o Percent(r.p))>>
         \o ExplainSection(r)

\* lines 111-117: title, markdown, and the widgets of user_input_features
Form == <<El("title", "ICU Major Bleeding Risk Prediction Tool"),
          El("form", "Patient Clinical Parameters Input")>>

\* st.button of line 119
Button == <<El("button", "Predict Bleeding Risk")>>

\* lines 174-194
Sidebar == <<El("sidebar", "About This Tool")>>

\* main(): what it renders; pressed is the value st.button returns
main(pressed, r) ==
    Form \o Button \o (IF pressed THEN TryBlock(r) ELSE <<>>) \o Sidebar

\* Streamlit's report of an exception no handler of the script caught
Uncaught == <<El("exception", "uncaught")>>

\* the call of the try statement that raises under responses r
Raising(r) ==
    IF r.score_raises THEN "predict_proba"
    ELSE IF r.explainer_raises THEN "explainer"
    ELSE IF r.plot_raises THEN "force_plot"
    ELSE "none"

----------------------------------------------------------------------------
(* One script run, lines 9-198, with widget state c *)

ScriptRun(c, pressed, r) ==
    LET lm == load_model(cache, file) IN
    IF lm.raised
    THEN \* line 18 raises: the run ends there
         /\ run_status' = "exception"
         /\ raised' = "load_model"
         /\ rendered' = Uncaught
         /\ input_df' = NoFrame
         /\ proba' = NoProba
         /\ controls' = c
         /\ UNCHANGED <<cache, model_loads, explainer_builds, failed_requests>>
    ELSE /\ explainer_builds < MaxRuns
         /\ cache' = lm.cache
         /\ model_loads' = model_loads + lm.built
         /\ explainer_builds' = TreeExplainer(explainer_builds)
         /\ controls' = c
         /\ input_df' = user_input_features(c, lm.cache.feature_names)
         /\ rendered' = main(pressed, r)
         /\ proba' = IF pressed /\ ~r.score_raises THEN r.p ELSE NoProba
         /\ run_status' = "ok"
         /\ raised' = IF pressed THEN Raising(r) ELSE "none"
         /\ failed_requests' = IF pressed /\ Raising(r) # "none"
                               THEN failed_requests + 1 ELSE 0

\* some value of Responses, for runs that make no request
NoRequest == [score_raises |-> FALSE, p |-> 0, explainer_raises |-> FALSE,
              plot_raises |-> FALSE]

----------------------------------------------------------------------------
(* Actions *)

\* the operator opens or reloads the page: a session with default widgets
OpenPage ==
    /\ ScriptRun(Defaults, FALSE, NoRequest)
    /\ UNCHANGED file

\* the operator types v into number_input w; the widget keeps v within its
\* limits; Streamlit reruns the script
EditNumber ==
    \E w \in NumberInputs : \E v \in Typed(w) :
        /\ El("form", "Patient Clinical Parameters Input") \in Range(rendered)
        /\ v \in min_value[w]..max_value[w]
        /\ v # controls[w]
        /\ ScriptRun([controls EXCEPT ![w] = v], FALSE, NoRequest)
        /\ UNCHANGED file

\* the operator picks option v of selectbox w; Streamlit reruns the script
EditSelect ==
    \E w \in SelectBoxes : \E v \in options(w) :
        /\ El("form", "Patient Clinical Parameters Input") \in Range(rendered)
        /\ v # controls[w]
        /\ ScriptRun([controls EXCEPT ![w] = v], FALSE, NoRequest)
        /\ UNCHANGED file

\* the operator presses "Predict Bleeding Risk": st.button returns True in
\* the rerun
PressPredict ==
    \E r \in Responses :
        /\ El("button", "Predict Bleeding Risk") \in Range(rendered)
        /\ ScriptRun(controls, TRUE, r)
        /\ UNCHANGED file

\* The bundle file on disk is installed, replaced or removed.  Once
\* load_model has returned, line 18 is answered by the cache entry and no
\* line reads the file again, so the model stops following the file.
ReplaceFile ==
    \E f \in Files :
        /\ ~cache.loaded
        /\ f # file
        /\ file' = f
        /\ UNCHANGED <<cache, controls, input_df, proba, rendered, run_status, raised,
                       model_loads, explainer_builds, failed_requests>>

\* the server process has started; no script run yet
Init ==
    /\ file \in Files
    /\ cache = EmptyCache
    /\ controls = Defaults
    /\ input_df = NoFrame
    /\ proba = NoProba
    /\ rendered = <<>>
    /\ run_status = "none"
    /\ raised = "none"
    /\ model_loads = 0
    /\ explainer_builds = 0
    /\ failed_requests = 0

Next == OpenPage \/ EditNumber \/ EditSelect \/ PressPredict \/ ReplaceFile

Spec == Init /\ [][Next]_vars

----------------------------------------------------------------------------
(* Vocabulary of the properties *)

Page == Range(rendered)

FormEl == El("form", "Patient Clinical Parameters Input")

ButtonEl == El("button", "Predict Bleeding Risk")

ErrorEl == El("error", "Error during prediction")

PlotEl == El("html", "force_plot")

HighRiskLabel == El("metric", "Prediction Result: High Risk")

LowRiskLabel == El("metric", "Prediction Result: Low Risk")

HighBand == El("warning", "High Risk Warning")

ModerateBand == El("info", "Moderate Risk")

LowBand == El("success", "Low Risk")

Bands == {HighBand, ModerateBand, LowBand}

Labels == {HighRiskLabel, LowRiskLabel}

\* the "Risk Probability" metric, whatever it shows
ProbaMetrics == {e \in Page : e.el = "metric" /\ e \notin Labels}

\* every element of A on the page comes before every element of B on it
Before(A, B) ==
    \A i, j \in 1..Len(rendered) :
        (rendered[i] \in A /\ rendered[j] \in B) => i < j

\* the columns of the frame of the last run
Columns == Range(input_df.columns)

\* feature_names holds exactly the 28 keys of the dict, each once
IsPermutation(feature_names) ==
    /\ Len(feature_names) = Len(DataKeys)
    /\ Range(feature_names) = Range(DataKeys)

\* a script run got to main() and returned from it
RanMain == run_status = "ok"

----------------------------------------------------------------------------
(* C1 *)

\* C1: after any sequence of edits, the frame of the last run holds
\* coagulation_dysfunction = 1 iff (ptt_max > 40 or pt_max > 14), else 0, and
\* respiratory_failure = 1 iff (respiratoryrate > 24 or nibp_systolic < 90),
\* else 0, for the values the controls hold now.
C1_DerivedFlagsCurrent ==
    RanMain =>
        /\ "coagulation_dysfunction" \in Columns =>
              /\ input_df.row["coagulation_dysfunction"] \in {0, 1}
              /\ input_df.row["coagulation_dysfunction"] = 1
                    <=> (controls["ptt_max"] > 40 \/ controls["pt_max"] > 14)
        /\ "respiratory_failure" \in Columns =>
              /\ input_df.row["respiratory_failure"] \in {0, 1}
              /\ input_df.row["respiratory_failure"] = 1
                    <=> (controls["respiratoryrate"] > 24
                            \/ controls["nibp_systolic"] < 90)

\* both operands of the coagulation flag were edited to their boundary values
C1_Witness ==
    /\ RanMain
    /\ controls["ptt_max"] = 40
    /\ controls["pt_max"] = 14
    /\ input_df.row["coagulation_dysfunction"] = 0

----------------------------------------------------------------------------
(* C2 *)

----------------------------------------------------------------------------
(* C3 *)

\* C3: when feature_names is a permutation of the 28 names of the dict, the
\* frame has exactly those names as columns, in the order of feature_names,
\* and each column holds the value the dict holds under the same name.
C3_SchemaOrder ==
    (RanMain /\ IsPermutation(cache.feature_names)) =>
        /\ input_df.columns = cache.feature_names
        /\ DOMAIN input_df.row = Range(DataKeys)
        /\ Len(input_df.columns) = 28
        /\ \A n \in Range(DataKeys) : input_df.row[n] = Data(controls)[n]
        /\ \A n \in NumberInputs : input_df.row[n] = controls[n]

\* a frame in the reverse of the dict's order, built after an edit
C3_Witness ==
    /\ RanMain
    /\ cache.feature_names = Reverse(DataKeys)
    /\ input_df.columns[1] = "stress_ulcer_drug"
    /\ controls["ptt_max"] = 45
    /\ input_df.row["ptt_max"] = 45

----------------------------------------------------------------------------
(* C4 *)

\* C4: when the name set of feature_names differs from the names of the
\* dict, user_input_features raises and returns no frame: no run ends with
\* a frame in which a key was dropped or a column holds the missing value.
C4_DriftRejected ==
    (cache.loaded /\ Range(cache.feature_names) # Range(DataKeys)) =>
        /\ input_df = NoFrame
        /\ run_status # "ok"

----------------------------------------------------------------------------
(* C5 *)

\* C5: each Yes/No field of the frame is 1 exactly when its own control is
\* "Yes" and 0 when it is "No"; gender is 1 for "Female" and 0 for "Male";
\* acute_coronary_syndrome and vasopressors_inotropic_agents are 0.
C5_Encoding ==
    RanMain =>
        /\ \A f \in YesNoInputs \cap Columns :
              /\ controls[f] = "Yes" => input_df.row[f] = 1
              /\ controls[f] = "No" => input_df.row[f] = 0
        /\ "gender" \in Columns
        /\ controls["gender"] = "Female" => input_df.row["gender"] = 1
        /\ controls["gender"] = "Male" => input_df.row["gender"] = 0
        /\ \A f \in {"acute_coronary_syndrome", "vasopressors_inotropic_agents"}
                       \cap Columns : input_df.row[f] = 0

\* two selections were changed; the third field keeps its own encoding
C5_Witness ==
    /\ RanMain
    /\ controls["gender"] = "Female"
    /\ controls["anemia"] = "Yes"
    /\ controls["trauma"] = "No"
    /\ input_df.row["gender"] = 1
    /\ input_df.row["anemia"] = 1
    /\ input_df.row["trauma"] = 0
    /\ input_df.row["caucasian"] = 1

----------------------------------------------------------------------------
(* C6 *)

\* C6: a run in which the scoring call or the explanation call raised shows
\* the error message, ends normally, leaves the widget values as they were
\* and offers the form and the button again; and a request after failed
\* requests in which nothing raises is rendered to the end.
C6_FailureCaught ==
    [][ /\ raised' \in {"predict_proba", "explainer", "force_plot"} =>
              /\ ErrorEl \in Range(rendered')
              /\ run_status' = "ok"
              /\ controls' = controls
              /\ FormEl \in Range(rendered')
              /\ ButtonEl \in Range(rendered')
              /\ input_df' = input_df
        /\ (failed_requests > 0 /\ proba' # NoProba /\ raised' = "none") =>
              /\ ErrorEl \notin Range(rendered')
              /\ PlotEl \in Range(rendered')
              /\ Bands \cap Range(rendered') # {}
              /\ Labels \cap Range(rendered') # {}
      ]_vars

\* two requests in a row failed and the button is offered again
C6_Witness ==
    /\ failed_requests = 2
    /\ ErrorEl \in Page
    /\ ButtonEl \in Page
    /\ run_status = "ok"

----------------------------------------------------------------------------
(* C7 *)

\* C7: over all script runs of the process the bundle and the explainer are
\* each constructed at most once.
C7_ConstructedOnce ==
    /\ model_loads <= 1
    /\ explainer_builds <= 1

----------------------------------------------------------------------------
(* C8 *)

\* the row of scenario 1: every control at its default, under feature_names
Scenario1(feature_names) == user_input_features(Defaults, feature_names).row

\* the controls of scenario 2
Scenario2Controls == [Defaults EXCEPT !["ptt_max"] = 45]

\* C8 as stated: with only ptt_max changed to 45, coagulation_dysfunction is
\* 1 and every other field equals the field of scenario 1.
C8_OnlyCoagulationDiffers ==
    (RanMain /\ IsPermutation(cache.feature_names) /\ controls = Scenario2Controls) =>
        /\ input_df.row["coagulation_dysfunction"] = 1
        /\ \A n \in Columns \ {"coagulation_dysfunction"} :
              input_df.row[n] = Scenario1(cache.feature_names)[n]

\* C8 amended: scenario 1 has coagulation_dysfunction = 0, respiratory_failure
\* = 0 and 28 fields; with only ptt_max changed to 45, coagulation_dysfunction
\* is 1 and the frame differs from scenario 1 in exactly two fields, ptt_max
\* (35 against 45) and coagulation_dysfunction.
C8_PttAndCoagulationDiffer ==
    (RanMain /\ IsPermutation(cache.feature_names)) =>
        /\ controls = Defaults =>
              /\ input_df.row["coagulation_dysfunction"] = 0
              /\ input_df.row["respiratory_failure"] = 0
              /\ Len(input_df.columns) = 28
              /\ Cardinality(Columns) = 28
        /\ controls = Scenario2Controls =>
              /\ input_df.row["coagulation_dysfunction"] = 1
              /\ input_df.row["ptt_max"] = 45
              /\ {n \in Columns : input_df.row[n] # Scenario1(cache.feature_names)[n]}
                    = {"ptt_max", "coagulation_dysfunction"}

\* scenario 2 was entered
C8_Witness ==
    /\ RanMain
    /\ IsPermutation(cache.feature_names)
    /\ controls = Scenario2Controls
    /\ input_df.row["coagulation_dysfunction"] = 1

----------------------------------------------------------------------------
(* C9 *)

\* C9: a run that finds no cache entry and a file that cannot be loaded
\* ends at line 18: it renders neither the form nor the button, builds no
\* frame, computes no probability and leaves the cache empty, so that the
\* next run fails the same way while the file stays as it is; as long as no
\* load has succeeded, the page holds neither form nor button.
C9_LoadFailureAborts ==
    /\ [](~cache.loaded =>
              /\ FormEl \notin Page
              /\ ButtonEl \notin Page
              /\ input_df = NoFrame
              /\ proba = NoProba)
    /\ [][ (file' = file /\ ~cache.loaded /\ file.status # "ok") =>
              /\ run_status' = "exception"
              /\ raised' = "load_model"
              /\ FormEl \notin Range(rendered')
              /\ ButtonEl \notin Range(rendered')
              /\ Labels \cap Range(rendered') = {}
              /\ Bands \cap Range(rendered') = {}
              /\ input_df' = NoFrame
              /\ proba' = NoProba
              /\ ~cache'.loaded
              /\ explainer_builds' = explainer_builds
      ]_vars

\* a run ended at line 18 on a corrupt file
C9_Witness ==
    /\ run_status = "exception"
    /\ raised = "load_model"
    /\ file = CorruptFile
    /\ rendered = Uncaught

----------------------------------------------------------------------------
(* C10 *)

\* C10: within a request the page shows the label and the probability, then
\* the explanation plot, then the risk band, in this order; a band is on the
\* page only with the plot before it; when the explanation raises, label and
\* probability are on the page, plot and band are not, and the error is; when
\* the scoring call raises, none of label, probability, plot, band is.
C10_RenderOrder ==
    /\ Before(Labels \cup ProbaMetrics, {PlotEl})
    /\ Before({PlotEl}, Bands)
    /\ Before(Labels, ProbaMetrics)
    /\ Bands \cap Page # {} => PlotEl \in Page
    /\ PlotEl \in Page => (Labels \cap Page # {} /\ ProbaMetrics # {})
    /\ raised \in {"explainer", "force_plot"} =>
          /\ Labels \cap Page # {}
          /\ ProbaMetrics # {}
          /\ PlotEl \notin Page
          /\ Bands \cap Page = {}
          /\ ErrorEl \in Page
    /\ raised = "predict_proba" =>
          /\ Labels \cap Page = {}
          /\ ProbaMetrics = {}
          /\ PlotEl \notin Page
          /\ Bands \cap Page = {}
          /\ ErrorEl \in Page

\* the explainer raised after a successful score
C10_Witness ==
    /\ raised = "explainer"
    /\ proba = 500
    /\ HighRiskLabel \in Page
    /\ ErrorEl \in Page

====
